---- MODULE Spec2Model ----
(***************************************************************************)
(* Model of src/main.py: the conversational ticket assistant.              *)
(*                                                                         *)
(* run_chat is a sequential loop that blocks at five places: the operator  *)
(* prompt, the completion call, the two JSON-RPC posts made by             *)
(* create_ticket_in_odoo, and the "Create another ticket?" prompt.  Each   *)
(* action below is the code that runs from one blocking point to the next. *)
(*                                                                         *)
(* Python values are records [kind, s, n].  Text is a sequence of tokens,  *)
(* every whitespace character and every letter whose case is looked at     *)
(* being a token of its own, so that str.strip and str.lower are computed, *)
(* not assumed.  A dict is a function from Keys to values, Absent marking  *)
(* a key the dict does not hold.                                           *)
(***************************************************************************)
EXTENDS Integers, Sequences, FiniteSets, TLC

VARIABLES
    pc,                     \* where run_chat is blocked, or "done" / "crashed"
    environ,                \* os.environ after load_dotenv()
    ticket_state,           \* the global ticket dict
    conversation_messages,  \* run_chat's transcript
    user_input,             \* run_chat local: the stripped operator line
    request,                \* what call_openai sent: ticket snapshot + transcript
    raw,                    \* run_chat local: what call_openai returned
    ticket,                 \* create_ticket_in_odoo's parameter
    uid,                    \* create_ticket_in_odoo local
    rpc,                    \* the requests.post calls of the current submission
    invocations,            \* calls of create_ticket_in_odoo since the last "You: " prompt
    stdout,                 \* what was written to the terminal since the last prompt was answered
    again,                  \* run_chat local: normalised answer to "Create another ticket?"
    turns,                  \* operator turns taken in the current session
    sessions                \* sessions started by answering "y"

vars == << pc, environ, ticket_state, conversation_messages, user_input, request,
           raw, ticket, uid, rpc, invocations, stdout, again, turns, sessions >>

-----------------------------------------------------------------------------
(* Bounds *)

MaxTurns == 2
MaxSessions == 1

-----------------------------------------------------------------------------
(* Python values *)

None == [kind |-> "none", s |-> << >>, n |-> 0]
Absent == [kind |-> "absent", s |-> << >>, n |-> 0]
Dict == [kind |-> "dict", s |-> << >>, n |-> 0]
List == [kind |-> "list", s |-> << >>, n |-> 1]
Str(cs) == [kind |-> "str", s |-> cs, n |-> 0]
Num(i) == [kind |-> "int", s |-> << >>, n |-> i]
Bool(b) == [kind |-> "bool", s |-> << >>, n |-> IF b THEN 1 ELSE 0]

Whitespace == {" ", "\t"}

RECURSIVE LStrip(_)
LStrip(cs) ==
    IF cs # << >> /\ Head(cs) \in Whitespace THEN LStrip(Tail(cs)) ELSE cs

RECURSIVE RStrip(_)
RStrip(cs) ==
    IF cs # << >> /\ cs[Len(cs)] \in Whitespace
    THEN RStrip(SubSeq(cs, 1, Len(cs) - 1))
    ELSE cs

Strip(cs) == RStrip(LStrip(cs))

UpperCase == << "A", "B", "C", "D", "E", "F", "G", "H", "I", "J", "K", "L", "M",
                "N", "O", "P", "Q", "R", "S", "T", "U", "V", "W", "X", "Y", "Z" >>
LowerCase == << "a", "b", "c", "d", "e", "f", "g", "h", "i", "j", "k", "l", "m",
                "n", "o", "p", "q", "r", "s", "t", "u", "v", "w", "x", "y", "z" >>

LowerChar(c) ==
    IF \E i \in 1..Len(UpperCase) : UpperCase[i] = c
    THEN LowerCase[CHOOSE i \in 1..Len(UpperCase) : UpperCase[i] = c]
    ELSE c

Lower(cs) == [i \in 1..Len(cs) |-> LowerChar(cs[i])]

\* bool(v)
Truthy(v) ==
    CASE v.kind = "str" -> v.s # << >>
      [] v.kind \in {"int", "bool", "list"} -> v.n # 0
      [] v.kind = "dict" -> TRUE
      [] OTHER -> FALSE

\* hash(v) succeeds
Hashable(v) == v.kind \notin {"list", "dict"}

-----------------------------------------------------------------------------
(* The ticket dict *)

\* The keys the model follows: three of the ten ticket fields (one plain text
\* field, the field the Submitter maps, the provenance tag) and one key that
\* is not a ticket field, which a reply may carry all the same.
KeyOrder == << "title", "priority", "source", "component" >>
Keys == {KeyOrder[i] : i \in 1..Len(KeyOrder)}

Low == << "l", "o", "w" >>
Medium == << "m", "e", "d", "i", "u", "m" >>
High == << "h", "i", "g", "h" >>
Chatbot == << "Chatbot" >>

\* ticket_state as the module builds it, and as run_chat rebuilds it
InitialTicket ==
    [k \in Keys |->
        CASE k = "source" -> Str(Chatbot)
          [] k = "component" -> Absent
          [] OTHER -> None]

EmptyDict == [k \in Keys |-> Absent]

\* dict.get(key, default)
Get(d, key, default) == IF d[key] = Absent THEN default ELSE d[key]

\* list(new_ticket.items())
Items(d) ==
    LET present == SelectSeq(KeyOrder, LAMBDA k : d[k] # Absent)
    IN  [i \in 1..Len(present) |-> << present[i], d[present[i]] >>]

\* merge_ticket_state without its two "continue" tests
MergeItemOverwrites(ts, key, value) == [ts EXCEPT ![key] = value]

\* merge_ticket_state filling only the fields that are still unknown
MergeItemFillsOnly(ts, key, value) ==
    IF value = None \/ (value.kind = "str" /\ Strip(value.s) = << >>)
    THEN ts
    ELSE IF ts[key] \in {None, Absent} THEN [ts EXCEPT ![key] = value] ELSE ts

\* One pass of the loop body of merge_ticket_state
MergeItem(ts, key, value) ==
    IF value = None
    THEN ts
    ELSE IF value.kind = "str" /\ Strip(value.s) = << >>
         THEN ts
         ELSE [ts EXCEPT ![key] = value]

RECURSIVE MergeLoop(_, _)
MergeLoop(ts, items) ==
    IF items = << >>
    THEN ts
    ELSE MergeLoop(MergeItem(ts, Head(items)[1], Head(items)[2]), Tail(items))

merge_ticket_state(ts, new_ticket) == MergeLoop(ts, Items(new_ticket))

-----------------------------------------------------------------------------
(* Inputs *)

\* What the model may answer for each key, besides leaving it out
Blanks == {None, Str(<< >>), Str(<< " ", "\t" >>)}

Answers(k) ==
    CASE k = "title" -> {Str(<< "Export", " ", "broken" >>)}
      [] k = "priority" ->
            {Str(Low), Str(Medium), Str(High), Str(<< "urgent" >>), Num(4), List}
      [] k = "source" -> {Str(Chatbot), Str(<< "Slack", " ", "Chatbot" >>)}
      [] k = "component" -> {Str(<< "export" >>)}

\* The partial tickets a reply may carry: the empty one, every one with a
\* single key, and the two-key ones of a reply that fills or blanks two fields.
Patches ==
    {EmptyDict}
    \cup UNION {{[EmptyDict EXCEPT ![k] = v] : v \in Answers(k) \cup Blanks} : k \in Keys}
    \cup {[EmptyDict EXCEPT !["title"] = t, !["priority"] = v] :
            t \in Answers("title") \cup {None}, v \in {Str(High), Str(<< >>)}}

\* response.choices[0].message.content, by what json.loads makes of it
Reply(shape, reply, tk, items, ready) ==
    [shape |-> shape, assistant_reply |-> reply, ticket |-> tk, items |-> items,
     is_ticket_ready |-> ready]

NoReply == Reply("unset", Absent, Absent, EmptyDict, Absent)

ReplyText == Str(<< " ", "Noted.", " " >>)
ReadySignals == {Absent, Bool(TRUE), Bool(FALSE)}

\* Replies of the shape the system prompt asks for, keys possibly missing
WellFormed ==
    {Reply("object", ReplyText, Dict, p, r) : p \in Patches, r \in ReadySignals}
    \cup {Reply("object", a, t, EmptyDict, r) :
            a \in {ReplyText, Absent}, t \in {Absent, None}, r \in ReadySignals}

\* Replies of any other shape: text that is no JSON, no content at all, JSON
\* that is no object, and objects whose assistant_reply is no string or whose
\* ticket is no object
Malformed ==
    {Reply(sh, Absent, Absent, EmptyDict, Absent) :
        sh \in {"invalid_json", "null_content", "json_array"}}
    \cup {Reply("object", None, Dict, EmptyDict, r) : r \in {Bool(TRUE), Bool(FALSE)}}
    \cup {Reply("object", ReplyText, Str(<< "n/a" >>), EmptyDict, Bool(TRUE))}

Replies == WellFormed \cup Malformed

EnvNames == {"ODOO_URL", "ODOO_DB", "ODOO_USERNAME", "ODOO_PASSWORD"}
EnvValues == {None, Str(<< >>), Str(<< "set" >>)}
\* The environments followed: at most one of the four values missing
Environments ==
    {env \in [EnvNames -> EnvValues] :
        Cardinality({v \in EnvNames : env[v] # Str(<< "set" >>)}) <= 1}

OperatorLines ==
    {<< " ", "h", "i", " " >>, << "E", "x", "i", "t" >>, << " ", "q", "u", "i", "t" >>}
AgainLines == {<< "y" >>, << " ", "Y", " " >>, << "n" >>, << "y", "e", "s" >>, << >>}

RpcResponse(err, res) == [error |-> err, result |-> res]
AuthResponses ==
    {RpcResponse(TRUE, Absent)}
    \cup {RpcResponse(FALSE, r) : r \in {Absent, Bool(FALSE), Num(7), Num(8)}}
CreateResponses ==
    {RpcResponse(TRUE, Absent)}
    \cup {RpcResponse(FALSE, r) : r \in {Absent, Bool(FALSE), Num(42)}}

-----------------------------------------------------------------------------
(* The terminal and the network *)

Out(tag) == [tag |-> tag, payload |-> EmptyDict]
\* create_ticket_in_odoo's print(json.dumps(ticket, indent=2))
Payload(t) == [tag |-> "payload", payload |-> t]
\* run_chat's print(json.dumps(ticket_state, indent=2))
Summary(t) == [tag |-> "summary", payload |-> t]

Message(role, content) == [role |-> role, content |-> content]
CorrectiveNote ==
    Message("assistant", << "I produced invalid JSON. Please ask your question again." >>)

NoRequest == [ticket_json |-> EmptyDict, messages |-> << >>]

\* The body of one requests.post(odoo_url + "/jsonrpc", json=...)
LoginCall(env) ==
    [method |-> "login", db |-> env["ODOO_DB"], login |-> env["ODOO_USERNAME"],
     password |-> env["ODOO_PASSWORD"], uid |-> None, name |-> None, priority |-> "-"]
CreateCall(env, id, t, code) ==
    [method |-> "create", db |-> env["ODOO_DB"], login |-> None,
     password |-> env["ODOO_PASSWORD"], uid |-> id, name |-> Get(t, "title", None),
     priority |-> code]

-----------------------------------------------------------------------------
(* create_ticket_in_odoo *)

\* The test reduced to "if not odoo_url"
ConfigCompleteUrlOnly(env) == Truthy(env["ODOO_URL"])

\* all([odoo_url, odoo_db, odoo_username, odoo_password])
ConfigComplete(env) == \A v \in EnvNames : Truthy(env[v])

\* The "if not uid" test left out
UidAcceptedAlways(id) == TRUE

\* "if not uid" did not return
UidAccepted(id) == Truthy(id)

\* priority_map.get(key, "1"), for a hashable key
PriorityCode(key) ==
    CASE key = Str(Low) -> "0"
      [] key = Str(Medium) -> "1"
      [] key = Str(High) -> "2"
      [] OTHER -> "1"

\* What the except-free failure branch of the create stage prints
EmptyResultReport(t, response) ==
    << Out("unknown_error"), Out("raw_response") >>

\* Entry of create_ticket_in_odoo(t), up to the first post or the early return;
\* `out` is what run_chat has printed so far in this turn.
Submit(t, out) ==
    /\ ticket' = t
    /\ invocations' = invocations + 1
    /\ uid' = None
    /\ IF ~ConfigComplete(environ)
       THEN /\ stdout' = out \o << Out("missing_env"), Out("not_sent"), Payload(t) >>
            /\ rpc' = << >>
            /\ pc' = "again"
       ELSE /\ stdout' = out
            /\ rpc' = << LoginCall(environ) >>
            /\ pc' = "auth"

\* The authenticate post returns; on success the payload is composed and the
\* create post is made.
AuthReturn(resp) ==
    /\ pc = "auth"
    /\ UNCHANGED << environ, ticket_state, conversation_messages, user_input,
                    request, raw, ticket, invocations, again, turns, sessions >>
    /\ IF resp.error
       THEN /\ stdout' = stdout \o << Out("auth_error"), Out("not_sent"), Payload(ticket) >>
            /\ pc' = "again"
            /\ UNCHANGED << uid, rpc >>
       ELSE LET id == IF resp.result = Absent THEN None ELSE resp.result
                key == Get(ticket, "priority", Str(Medium))
            IN  /\ uid' = id
                /\ IF ~UidAccepted(id)
                   THEN /\ stdout' = stdout \o
                                << Out("uid_empty"), Out("not_sent"), Payload(ticket) >>
                        /\ pc' = "again"
                        /\ UNCHANGED rpc
                   ELSE IF ~Hashable(key)
                        THEN \* TypeError: unhashable type, caught nowhere
                             /\ pc' = "crashed"
                             /\ UNCHANGED << stdout, rpc >>
                        ELSE /\ rpc' = Append(rpc,
                                        CreateCall(environ, id, ticket, PriorityCode(key)))
                             /\ pc' = "create"
                             /\ UNCHANGED stdout

\* The create post returns.
CreateReturn(resp) ==
    /\ pc = "create"
    /\ UNCHANGED << environ, ticket_state, conversation_messages, user_input,
                    request, raw, ticket, uid, rpc, invocations, again, turns, sessions >>
    /\ pc' = "again"
    /\ IF resp.error
       THEN stdout' = stdout \o << Out("create_error"), Out("payload_failed"), Payload(ticket) >>
       ELSE IF resp.result # Absent /\ Truthy(resp.result)
            THEN stdout' = stdout \o << Out("created"), Out("ticket_id") >>
            ELSE stdout' = stdout \o EmptyResultReport(ticket, resp)

-----------------------------------------------------------------------------
(* run_chat *)

ExitWords == {<< "e", "x", "i", "t" >>, << "q", "u", "i", "t" >>}

\* A reset that assigns the ten fields in place, keeping any other key
ResetTicketInPlace(ts) ==
    [k \in Keys |-> IF InitialTicket[k] = Absent THEN ts[k] ELSE InitialTicket[k]]

\* The ticket run_chat starts a new session with
ResetTicket(ts) == InitialTicket

\* The Submitter called before the merge
SubmitArgumentStale(before, merged) == before

\* The argument of create_ticket_in_odoo(ticket_state) in a turn that began with
\* the ticket `before` and merged it into `merged`
SubmitArgument(before, merged) == merged

\* bool(data.get("is_ticket_ready", False))
IsReady(data) == Truthy(Get(data, "is_ticket_ready", Bool(FALSE)))

\* The operator answers "You: ".
UserInput(line) ==
    /\ pc = "input"
    /\ user_input' = Strip(line)
    /\ UNCHANGED << environ, ticket_state, ticket, uid, rpc, again, sessions >>
    /\ raw' = NoReply
    /\ invocations' = 0
    /\ IF Lower(Strip(line)) \in ExitWords
       THEN /\ stdout' = << Out("goodbye") >>
            /\ pc' = "done"
            /\ UNCHANGED << conversation_messages, request, turns >>
       ELSE /\ turns < MaxTurns
            /\ turns' = turns + 1
            /\ stdout' = << >>
            /\ conversation_messages' =
                    Append(conversation_messages, Message("user", Strip(line)))
            /\ request' = [ticket_json |-> ticket_state,
                           messages |-> conversation_messages']
            /\ pc' = "openai"

\* call_openai returns the reply's content.
OpenAIReturn(content) ==
    /\ pc = "openai"
    /\ raw' = content
    /\ request' = NoRequest
    /\ pc' = "reply"
    /\ UNCHANGED << environ, ticket_state, conversation_messages, user_input, ticket,
                    uid, rpc, invocations, stdout, again, turns, sessions >>

\* client.chat.completions.create raises; nothing catches it.
OpenAIRaise ==
    /\ pc = "openai"
    /\ request' = NoRequest
    /\ pc' = "crashed"
    /\ UNCHANGED << environ, ticket_state, conversation_messages, user_input, raw,
                    ticket, uid, rpc, invocations, stdout, again, turns, sessions >>

\* json.loads(raw) raises json.JSONDecodeError
JSONDecodeError(content) == content.shape = "invalid_json"

\* An exception other than JSONDecodeError leaves lines 287-301:
\*   json.loads(None) is a TypeError; a JSON array or scalar has no .get;
\*   a non-string assistant_reply has no .strip; a truthy non-dict has no .items
Raises(content) ==
    \/ content.shape \in {"null_content", "json_array"}
    \/ /\ content.shape = "object"
       /\ \/ Get(content, "assistant_reply", Str(<< >>)).kind # "str"
          \/ /\ content.ticket.kind # "dict"
             /\ content.ticket # Absent
             /\ Truthy(content.ticket)

\* data.get("ticket", {}) or {}
NewTicket(content) ==
    IF content.ticket.kind = "dict" THEN content.items ELSE EmptyDict

\* From the return of call_openai to the next blocking call.
HandleReply ==
    /\ pc = "reply"
    /\ UNCHANGED << environ, user_input, request, raw, again, turns, sessions >>
    /\ IF JSONDecodeError(raw)
       THEN /\ stdout' = Append(stdout, Out("apology"))
            /\ conversation_messages' = Append(conversation_messages, CorrectiveNote)
            /\ pc' = "input"
            /\ UNCHANGED << ticket_state, ticket, uid, rpc, invocations >>
       ELSE IF Raises(raw)
       THEN /\ pc' = "crashed"
            /\ UNCHANGED << ticket_state, conversation_messages, ticket, uid, rpc,
                            invocations, stdout >>
       ELSE LET assistant_reply == Strip(Get(raw, "assistant_reply", Str(<< >>)).s)
                merged == merge_ticket_state(ticket_state, NewTicket(raw))
                out == Append(stdout, Out("reply"))
            IN  /\ ticket_state' = merged
                /\ conversation_messages' =
                        Append(conversation_messages, Message("assistant", assistant_reply))
                /\ IF IsReady(raw)
                   THEN Submit(SubmitArgument(ticket_state, merged),
                               out \o << Out("ready"), Summary(merged) >>)
                   ELSE /\ stdout' = out
                        /\ pc' = "input"
                        /\ UNCHANGED << ticket, uid, rpc, invocations >>

\* The operator answers "Create another ticket? (y/n): ".
AgainInput(line) ==
    /\ pc = "again"
    /\ again' = Lower(Strip(line))
    /\ UNCHANGED << environ, user_input, request, invocations >>
    /\ raw' = NoReply
    /\ ticket' = EmptyDict
    /\ uid' = None
    /\ rpc' = << >>
    /\ IF Lower(Strip(line)) = << "y" >>
       THEN /\ sessions < MaxSessions
            /\ sessions' = sessions + 1
            /\ ticket_state' = ResetTicket(ticket_state)
            /\ conversation_messages' = << >>
            /\ turns' = 0
            /\ stdout' = << Out("starting_new") >>
            /\ pc' = "input"
       ELSE /\ stdout' = << Out("goodbye") >>
            /\ pc' = "done"
            /\ UNCHANGED << ticket_state, conversation_messages, turns, sessions >>

-----------------------------------------------------------------------------
(* The program *)

Init ==
    /\ pc = "input"
    /\ environ \in Environments
    /\ ticket_state = InitialTicket
    /\ conversation_messages = << >>
    /\ user_input = << >>
    /\ request = NoRequest
    /\ raw = NoReply
    /\ ticket = EmptyDict
    /\ uid = None
    /\ rpc = << >>
    /\ invocations = 0
    /\ stdout = << Out("banner") >>
    /\ again = << >>
    /\ turns = 0
    /\ sessions = 0

Next ==
    \/ \E line \in OperatorLines : UserInput(line)
    \/ \E content \in Replies : OpenAIReturn(content)
    \/ OpenAIRaise
    \/ HandleReply
    \/ \E resp \in AuthResponses : AuthReturn(resp)
    \/ \E resp \in CreateResponses : CreateReturn(resp)
    \/ \E line \in AgainLines : AgainInput(line)

Spec == Init /\ [][Next]_vars

-----------------------------------------------------------------------------
(* The merge on its own: one reply handled from every ticket the program can *)
(* have accumulated, for every partial ticket over the keys followed.        *)

Tickets ==
    {t \in [Keys -> UNION {Answers(k) : k \in Keys} \cup {None, Absent}] :
        /\ t["title"] \in Answers("title") \cup {None}
        /\ t["priority"] \in Answers("priority") \cup {None}
        /\ t["source"] \in Answers("source")
        /\ t["component"] \in Answers("component") \cup {Absent}}

AllPatches ==
    {p \in [Keys -> UNION {Answers(k) : k \in Keys} \cup Blanks \cup {Absent}] :
        \A k \in Keys : p[k] \in Answers(k) \cup Blanks \cup {Absent}}

InitMerge ==
    /\ pc = "reply"
    /\ environ = [v \in EnvNames |-> Str(<< "set" >>)]
    /\ ticket_state \in Tickets
    /\ conversation_messages = << Message("user", << "h", "i" >>) >>
    /\ user_input = << "h", "i" >>
    /\ request = NoRequest
    /\ raw \in {Reply("object", ReplyText, Dict, p, Bool(FALSE)) : p \in AllPatches}
    /\ ticket = EmptyDict
    /\ uid = None
    /\ rpc = << >>
    /\ invocations = 0
    /\ stdout = << >>
    /\ again = << >>
    /\ turns = 1
    /\ sessions = 0

NextMerge == HandleReply

SpecMerge == InitMerge /\ [][NextMerge]_vars

-----------------------------------------------------------------------------
(* Vocabulary of the properties *)

\* Text made of whitespace only, the empty text included
BlankText(v) == v.kind = "str" /\ \A i \in 1..Len(v.s) : v.s[i] \in Whitespace

\* An empty/unknown value: no key, None, or blank text
Empty(v) == v \in {Absent, None} \/ BlankText(v)

\* The merge as specified, field by field
ReferenceMerge(old, patch) ==
    [k \in Keys |-> IF Empty(patch[k]) THEN old[k] ELSE patch[k]]

Tags(out) == {out[i].tag : i \in 1..Len(out)}

\* A reply that is the structured object asked for, keys possibly missing
ExpectedObject(content) ==
    /\ content.shape = "object"
    /\ content.assistant_reply.kind \in {"str", "absent"}
    /\ content.ticket.kind \in {"dict", "none", "absent"}
    /\ content.is_ticket_ready.kind \in {"bool", "absent"}

\* HandleReply has run on the reply held in raw
Handled == raw # NoReply /\ pc # "reply"

SubmitterRuns == pc \in {"auth", "create"}
SubmitterReturned == pc = "again"

-----------------------------------------------------------------------------
(* C1 *)

\* C1: within a session a field that holds a non-empty value never becomes
\* empty or unknown again, and a None or blank patch value leaves its field as
\* it was.
C1_NeverRegresses ==
    [][ sessions' = sessions =>
            \A k \in Keys :
                /\ ~Empty(ticket_state[k]) => ~Empty(ticket_state'[k])
                /\ (pc = "reply" /\ pc' # "crashed" /\ ~JSONDecodeError(raw)
                        /\ NewTicket(raw)[k] # Absent /\ Empty(NewTicket(raw)[k]))
                    => ticket_state'[k] = ticket_state[k] ]_vars

\* A second turn whose reply blanks a field the first turn had filled
C1_Witness ==
    /\ Handled
    /\ pc = "input"
    /\ turns = 2
    /\ \E k \in Keys :
        /\ raw.items[k] # Absent
        /\ Empty(raw.items[k])
        /\ ticket_state[k] # InitialTicket[k]
        /\ ~Empty(ticket_state[k])

(* C2 *)

\* C2: handling a reply leaves the ticket equal to the reference merge of the
\* old ticket and the reply's partial ticket: non-empty patch values taken,
\* everything else as before.
C2_MergeIsReference ==
    [][ (pc = "reply" /\ pc' # "crashed" /\ ~JSONDecodeError(raw))
            => ticket_state' = ReferenceMerge(ticket_state, NewTicket(raw)) ]_vars

\* A reply that overwrites one known field, blanks another and omits a third
C2_Witness ==
    /\ Handled
    /\ raw.items["priority"] = Str(Low)
    /\ ticket_state["priority"] = Str(Low)
    /\ raw.items["title"] = Str(<< >>)
    /\ ticket_state["title"] \in Answers("title")
    /\ raw.items["source"] = Absent
    /\ ticket_state["source"] = Str(<< "Slack", " ", "Chatbot" >>)
    /\ raw.items["component"] \in Answers("component")
    /\ ticket_state["component"] = raw.items["component"]

(* C3 *)

\* C3: the source field always holds the provenance tag "Chatbot", in the ticket
\* and in what the Submitter is handed.
C3_SourceConstant ==
    /\ ticket_state["source"] = Str(Chatbot)
    /\ (SubmitterRuns \/ SubmitterReturned) => ticket["source"] = Str(Chatbot)

(* C4 *)

\* C4: a reply that is not the expected structured object is recovered from:
\* apology printed, one corrective note after the operator's utterance, ticket
\* unchanged, no submission, back at the operator prompt.
C4_BadReplyRecovered ==
    [][ (pc = "reply" /\ ~ExpectedObject(raw)) =>
            /\ pc' = "input"
            /\ "apology" \in Tags(stdout')
            /\ conversation_messages[Len(conversation_messages)].role = "user"
            /\ conversation_messages' = Append(conversation_messages, CorrectiveNote)
            /\ ticket_state' = ticket_state
            /\ invocations' = 0
            /\ rpc' = rpc ]_vars

(* C5 *)

\* C5: a turn whose reply is the expected object calls the Submitter once if
\* the readiness signal is true, with the ticket as merged in that turn, and
\* not at all if the signal is false or missing.
C5_SubmitIffReady ==
    /\ [](invocations <= 1)
    /\ [][ (pc = "reply" /\ ExpectedObject(raw)) =>
            IF raw.is_ticket_ready = Bool(TRUE)
            THEN /\ invocations = 0
                 /\ invocations' = 1
                 /\ ticket' = ReferenceMerge(ticket_state, NewTicket(raw))
                 /\ ticket' = ticket_state'
                 /\ pc' \in {"auth", "again"}
            ELSE /\ invocations' = 0
                 /\ pc' = "input"
                 /\ UNCHANGED << ticket, rpc >> ]_vars
    /\ [][ pc # "reply" => (invocations' = invocations \/ invocations' = 0) ]_vars

\* The ready reply of a second turn: the Submitter holds what both turns gave
C5_Witness ==
    /\ SubmitterRuns
    /\ invocations = 1
    /\ turns = 2
    /\ raw.is_ticket_ready = Bool(TRUE)
    /\ raw.items["priority"] = Str(High)
    /\ raw.items["title"] = Absent
    /\ ticket["priority"] = Str(High)
    /\ ticket["title"] \in Answers("title")

(* C6 *)

\* C6: with any of the four configuration values missing or empty a submission
\* makes no network call, prints the ticket and returns to run_chat.
C6_DryRun ==
    (invocations = 1 /\ \E v \in EnvNames : environ[v] \in {None, Str(<< >>)}) =>
        /\ rpc = << >>
        /\ pc \in {"again", "input", "done"}
        /\ SubmitterReturned =>
            /\ \E i \in 1..Len(stdout) : stdout[i] = Payload(ticket_state)
            /\ "missing_env" \in Tags(stdout)

\* A dry run with only the password missing
C6_Witness ==
    /\ SubmitterReturned
    /\ invocations = 1
    /\ environ["ODOO_URL"] = Str(<< "set" >>)
    /\ environ["ODOO_PASSWORD"] = Str(<< >>)
    /\ "missing_env" \in Tags(stdout)

(* C7 *)

\* C7: a submission posts at most login then create, the create only with the
\* non-empty uid the login returned, and never after a failed login.
C7_LinearPipeline ==
    /\ Len(rpc) <= 2
    /\ Len(rpc) >= 1 => rpc[1].method = "login"
    /\ Len(rpc) = 2 =>
        /\ rpc[2].method = "create"
        /\ rpc[2].uid = uid
        /\ uid.kind = "int"
        /\ uid.n # 0
        /\ Tags(stdout) \cap {"auth_error", "uid_empty", "not_sent"} = {}
    /\ pc = "create" <=> (Len(rpc) = 2 /\ invocations = 1 /\ ~SubmitterReturned)
    /\ (SubmitterReturned /\ Tags(stdout) \cap {"auth_error", "uid_empty"} # {})
        => Len(rpc) = 1

\* The create post in flight with the uid the login gave
C7_Witness ==
    /\ pc = "create"
    /\ uid = Num(8)
    /\ rpc[2].uid = Num(8)

(* C8 *)

\* C8: whenever a submission ends without a record created, the Submitter has
\* printed the ticket payload.
C8_FailureShowsPayload ==
    (SubmitterReturned /\ "created" \notin Tags(stdout)) =>
        \E i \in 1..Len(stdout) : stdout[i] = Payload(ticket)

(* C9 *)

\* C9: the priority mapping never raises, and sends low as 0, medium as 1,
\* high as 2 and every other value the ticket can hold as 1.
C9_PriorityTotal ==
    /\ (pc = "crashed" => invocations = 0)
    /\ Len(rpc) = 2 =>
        rpc[2].priority =
            CASE ticket["priority"] = Str(Low) -> "0"
              [] ticket["priority"] = Str(High) -> "2"
              [] OTHER -> "1"

(* C10 *)

\* C10: answering "y" replaces the ticket by the initial record and empties the
\* transcript, so the next request carries neither; any other answer ends the
\* loop; and nowhere else is the transcript shortened or a key removed.
C10_Reset ==
    /\ [][ pc = "again" =>
            IF again' = << "y" >>
            THEN /\ ticket_state' = InitialTicket
                 /\ conversation_messages' = << >>
                 /\ pc' = "input"
            ELSE /\ pc' = "done"
                 /\ UNCHANGED << ticket_state, conversation_messages >> ]_vars
    /\ [][ pc # "again" =>
            /\ Len(conversation_messages') >= Len(conversation_messages)
            /\ SubSeq(conversation_messages', 1, Len(conversation_messages))
                    = conversation_messages
            /\ \A k \in Keys : ticket_state[k] # Absent => ticket_state'[k] # Absent ]_vars
    /\ [][ (pc = "input" /\ pc' = "openai" /\ turns = 0) =>
            /\ request'.ticket_json = InitialTicket
            /\ request'.messages = << Message("user", user_input') >> ]_vars

\* A second session about to make its first request
C10_Witness ==
    /\ sessions = 1
    /\ pc = "openai"
    /\ turns = 1
    /\ request.ticket_json = InitialTicket
    /\ Len(request.messages) = 1

====
